---- MODULE Spec2Model ----
(***************************************************************************)
(* Model of js/modules/accessibility/components/ZoomComponent.js:          *)
(* Axis.prototype.panStep, the proxy overlays of the reset-zoom and        *)
(* drill-up buttons, and the three keyboard navigation handlers.           *)
(***************************************************************************)
EXTENDS Integers, Sequences, FiniteSets, TLC

VARIABLES
    xAxis,                  \* extremes of chart.xAxis[0]: min, max, dataMin, dataMax
    yAxis,                  \* extremes of chart.yAxis[0]
    mapZoom,                \* chart.mapZoom is defined
    mapNavButtons,          \* chart.mapNavButtons: Undefined or <<array of buttons>>
    resetZoomButton,        \* chart.resetZoomButton: Undefined or <<button>>
    drillUpButton,          \* chart.drillUpButton: Undefined or <<button>>
    drilldownBackText,      \* what chart.getDrilldownBackText() returns
    focusElement,           \* chart.focusElement, set by chart.setFocusToElement
    focusedMapNavButtonIx,  \* component.focusedMapNavButtonIx
    resetZoomProxyGroup,    \* component.resetZoomProxyGroup
    resetZoomProxyButton,   \* component.resetZoomProxyButton
    drillUpProxyGroup,      \* component.drillUpProxyGroup
    drillUpProxyButton,     \* component.drillUpProxyButton
    elements,               \* the proxy elements still referenced, by id
    attached,               \* ids of the proxy groups that are in the document
    currentHandler,         \* the handler the keyboard sequencer has armed
    lastOp                  \* the last operation: arguments, pre-state, outcome

vars == <<xAxis, yAxis, mapZoom, mapNavButtons, resetZoomButton, drillUpButton,
          drilldownBackText, focusElement, focusedMapNavButtonIx,
          resetZoomProxyGroup, resetZoomProxyButton, drillUpProxyGroup,
          drillUpProxyButton, elements, attached, currentHandler, lastOp>>

chartVars == <<mapZoom, mapNavButtons, resetZoomButton, drillUpButton,
               drilldownBackText>>
proxyVars == <<resetZoomProxyGroup, resetZoomProxyButton, drillUpProxyGroup,
               drillUpProxyButton, elements, attached>>

(***************************************************************************)
(* Bounds of the model.                                                    *)
(***************************************************************************)
\* bits of the significand of a Number (53 in IEEE-754 binary64)
Precision == 3
\* largest axis value of the initial extremes
MaxValue == 16
\* largest axis value of the initial extremes of a chart's two axes
MaxChartValue == 3
\* largest axis value of the initial extremes of an inverted axis
MaxInverted == 6
\* largest magnitude of the extremes of an axis that is panned further
MaxMagnitude == 32
\* largest granularity passed to panStep
MaxGran == 3
\* largest number of map-navigation buttons of a chart
MaxButtons == 2

(***************************************************************************)
(* JavaScript values.  An optional value is a tuple: <<>> is undefined and *)
(* <<v>> is the value v.                                                   *)
(***************************************************************************)
Undefined == <<>>
IsDefined(x) == x # Undefined
Val(x) == x[1]

\* a[i] of a JavaScript array a (a sequence, indexed from 0), i an optional
\* number: undefined when i is undefined or out of range
ArrayGet(a, i) ==
    IF IsDefined(i) /\ Val(i) >= 0 /\ Val(i) < Len(a) THEN <<a[Val(i) + 1]>>
    ELSE Undefined

\* a with a[i] replaced by v (i a number in range)
ArraySet(a, i, v) == [a EXCEPT ![i + 1] = v]

(***************************************************************************)
(* Number arithmetic.  A Number is a binary floating-point value; every    *)
(* operation returns the exact result rounded to the nearest representable *)
(* value, ties to even.  Values are counted in units of the smallest       *)
(* quantum, so a representable value is an integer m * 2^e with            *)
(* |m| < 2^Precision and e >= 0.                                           *)
(***************************************************************************)
RECURSIVE Pow2(_)
Pow2(n) == IF n = 0 THEN 1 ELSE 2 * Pow2(n - 1)

Abs(n) == IF n < 0 THEN -n ELSE n

\* the quantum of the binade of the rational a / d (a >= 0, d > 0)
RECURSIVE Quantum(_, _, _)
Quantum(a, d, q) ==
    IF a < Pow2(Precision) * q * d THEN q ELSE Quantum(a, d, 2 * q)

\* the integer nearest to a / d (a >= 0, d > 0), ties to the even one
RoundHalfEven(a, d) ==
    LET k == a \div d
        r == a % d
    IN  IF 2 * r < d THEN k
        ELSE IF 2 * r > d THEN k + 1
        ELSE IF k % 2 = 0 THEN k ELSE k + 1

\* the Number nearest to the rational n / d (d > 0)
Fl(n, d) ==
    LET q == Quantum(Abs(n), d, 1)
        m == RoundHalfEven(Abs(n), d * q) * q
    IN  IF n < 0 THEN -m ELSE m

NumAdd(a, b) == Fl(a + b, 1)
NumSub(a, b) == Fl(a - b, 1)
NumDiv(a, b) == Fl(a, b)
\* multiplication by a direction, -1 or +1, is exact
NumMulSign(a, s) == a * s

IsNumber(v) == Fl(v, 1) = v
Numbers(maxv) == {v \in 0..maxv : IsNumber(v)}

\* the extremes an axis can start with: data bounds around a window
Extremes(maxv) ==
    {[min |-> mn, max |-> mx, dataMin |-> dmn, dataMax |-> dmx] :
        <<mn, mx, dmn, dmx>> \in
            {t \in Numbers(maxv) \X Numbers(maxv) \X Numbers(maxv) \X Numbers(maxv) :
                t[3] <= t[1] /\ t[1] <= t[2] /\ t[2] <= t[4]}}

(***************************************************************************)
(* H.Axis.prototype.panStep                                                *)
(***************************************************************************)
DefaultGranularity == 3

\* granularity || 3, for an optional granularity: undefined and 0 are falsy
Gran(granularity) ==
    IF IsDefined(granularity) /\ Val(granularity) # 0 THEN Val(granularity)
    ELSE DefaultGranularity

\* a panStep that takes its step from the distance to the data minimum
PanStepExtremes_DataRangeStep(extremes, direction, granularity) ==
    LET gran == Gran(granularity)
        step == NumMulSign(NumDiv(NumSub(extremes.max, extremes.dataMin), gran),
                           direction)
        newMax == NumAdd(extremes.max, step)
        newMin == NumAdd(extremes.min, step)
        size == NumSub(newMax, newMin)
    IN  IF direction < 0 /\ newMin < extremes.dataMin
            THEN <<extremes.dataMin, NumAdd(extremes.dataMin, size)>>
        ELSE IF direction > 0 /\ newMax > extremes.dataMax
            THEN <<NumSub(extremes.dataMax, size), extremes.dataMax>>
        ELSE <<newMin, newMax>>

\* the pair <<newMin, newMax>> that panStep passes to setExtremes
PanStepExtremes(extremes, direction, granularity) ==
    LET gran == Gran(granularity)
        step == NumMulSign(NumDiv(NumSub(extremes.max, extremes.min), gran),
                           direction)
        newMax == NumAdd(extremes.max, step)
        newMin == NumAdd(extremes.min, step)
        size == NumSub(newMax, newMin)
    IN  IF direction < 0 /\ newMin < extremes.dataMin
            THEN <<extremes.dataMin, NumAdd(extremes.dataMin, size)>>
        ELSE IF direction > 0 /\ newMax > extremes.dataMax
            THEN <<NumSub(extremes.dataMax, size), extremes.dataMax>>
        ELSE <<newMin, newMax>>

\* axis.setExtremes(newMin, newMax): the axis shows the new window
SetExtremes(axis, newMin, newMax) ==
    [axis EXCEPT !.min = newMin, !.max = newMax]

\* the axis after axis.panStep(direction, granularity)
PanStep(axis, direction, granularity) ==
    LET e == PanStepExtremes(axis, direction, granularity)
    IN  SetExtremes(axis, e[1], e[2])


(***************************************************************************)
(* The chart, as the component reads it.                                   *)
(***************************************************************************)
Chart ==
    [mapZoom |-> mapZoom, mapNavButtons |-> mapNavButtons,
     resetZoomButton |-> resetZoomButton, drillUpButton |-> drillUpButton,
     drilldownBackText |-> drilldownBackText]

\* chart.langFormat(key, context): the label of a key, with the button text
\* the context carries
LangFormat(key, buttonText) == <<key, buttonText>>

\* chart.mapZoom() without arguments: the axis shows its whole data range
MapZoomReset(axis) == [axis EXCEPT !.min = axis.dataMin, !.max = axis.dataMax]

\* truthiness of an optional number: undefined and 0 are falsy
Truthy(v) == IsDefined(v) /\ Val(v) # 0

\* validate() of a handler that never asks for the number of buttons
ChartHasMapZoom_NoLength(chart) ==
    IF ~chart.mapZoom THEN Undefined
    ELSE IF ~IsDefined(chart.mapNavButtons) THEN Undefined
    ELSE <<1>>

\* the value of chart.mapZoom && chart.mapNavButtons &&
\* chart.mapNavButtons.length: undefined, or the number of buttons
ChartHasMapZoom(chart) ==
    IF ~chart.mapZoom THEN Undefined
    ELSE IF ~IsDefined(chart.mapNavButtons) THEN Undefined
    ELSE <<Len(Val(chart.mapNavButtons))>>

(***************************************************************************)
(* Proxy overlays.  p is the component's proxy state: its four properties, *)
(* the proxy elements by id, and the groups that are in the document.  A   *)
(* new element gets an id no element in p has.                             *)
(***************************************************************************)
ProxyState ==
    [resetZoomProxyGroup |-> resetZoomProxyGroup,
     resetZoomProxyButton |-> resetZoomProxyButton,
     drillUpProxyGroup |-> drillUpProxyGroup,
     drillUpProxyButton |-> drillUpProxyButton,
     elements |-> elements, attached |-> attached]

ProxyProps ==
    {"resetZoomProxyGroup", "resetZoomProxyButton", "drillUpProxyGroup",
     "drillUpProxyButton"}

GroupElement == [kind |-> "group", parent |-> 0, target |-> "", label |-> <<>>]
ButtonElement(group, target, label) ==
    [kind |-> "button", parent |-> group, target |-> target, label |-> label]

\* the id of a new element
NewId(p) ==
    CHOOSE id \in 1..(Cardinality(DOMAIN p.elements) + 1) :
        /\ id \notin DOMAIN p.elements
        /\ \A other \in 1..(id - 1) : other \in DOMAIN p.elements

WithElement(els, id, el) ==
    [i \in DOMAIN els \cup {id} |-> IF i = id THEN el ELSE els[i]]

\* the elements something still refers to: the component's properties, the
\* groups in the document, their buttons, and the groups of those buttons
Referenced(p) ==
    LET direct == {Val(p[prop]) : prop \in {q \in ProxyProps : IsDefined(p[q])}}
                      \cup p.attached
        children == {id \in DOMAIN p.elements : p.elements[id].parent \in p.attached}
        parents == {p.elements[id].parent : id \in direct \cup children} \ {0}
    IN  direct \cup children \cup parents

\* p without the elements nothing refers to any more
Collect(p) ==
    [p EXCEPT !.elements = [id \in Referenced(p) |-> p.elements[id]]]

\* component.removeElement(el): takes el out of the document when it is one
\* and is in it
RemoveElement(p, el) ==
    IF IsDefined(el) /\ Val(el) \in p.attached
        THEN [p EXCEPT !.attached = @ \ {Val(el)}]
    ELSE p

\* this[groupProp] = this.addProxyGroup(): a new group, in the document
AddProxyGroup(p, groupProp) ==
    LET id == NewId(p)
    IN  [p EXCEPT !.elements = WithElement(@, id, GroupElement),
                  !.attached = @ \cup {id},
                  ![groupProp] = <<id>>]

\* this[buttonProp] = this.createProxyButton(buttonEl, group, attrs): a new
\* button in the group, labelled, bound to the chart's button
CreateProxyButton(p, buttonEl, buttonProp, group, label) ==
    LET id == NewId(p)
    IN  [p EXCEPT !.elements =
                      WithElement(@, id, ButtonElement(Val(group), buttonEl, label)),
                  ![buttonProp] = <<id>>]

\* a recreate that keeps the group it finds and only adds a button to it
RecreateProxyButtonAndGroup_ReuseGroup(p, buttonEl, buttonProp, groupProp, label) ==
    LET p2 == IF IsDefined(p[groupProp])
                  THEN [p EXCEPT !.attached = @ \cup {Val(p[groupProp])}]
              ELSE AddProxyGroup(p, groupProp)
    IN  CreateProxyButton(p2, buttonEl, buttonProp, p2[groupProp], label)

\* a recreate that keeps the proxy button the component already has
RecreateProxyButtonAndGroup_KeepButton(p, buttonEl, buttonProp, groupProp, label) ==
    LET p1 == RemoveElement(p, p[groupProp])
        p2 == AddProxyGroup(p1, groupProp)
    IN  IF IsDefined(p[buttonProp]) THEN p2
        ELSE CreateProxyButton(p2, buttonEl, buttonProp, p2[groupProp], label)

RecreateProxyButtonAndGroup(p, buttonEl, buttonProp, groupProp, label) ==
    LET p1 == RemoveElement(p, p[groupProp])
        p2 == AddProxyGroup(p1, groupProp)
    IN  CreateProxyButton(p2, buttonEl, buttonProp, p2[groupProp], label)

\* an update that does not start with a clean slate
UpdateProxyOverlays_NoCleanSlate(p, chart) ==
    LET p3 == IF IsDefined(chart.resetZoomButton)
                  THEN RecreateProxyButtonAndGroup(
                           p, "resetZoomButton", "resetZoomProxyButton",
                           "resetZoomProxyGroup",
                           LangFormat("accessibility.zoom.resetZoomButton", ""))
              ELSE p
    IN  IF IsDefined(chart.drillUpButton)
            THEN RecreateProxyButtonAndGroup(
                     p3, "drillUpButton", "drillUpProxyButton",
                     "drillUpProxyGroup",
                     LangFormat("accessibility.drillUpButton",
                                chart.drilldownBackText))
        ELSE p3

\* an update that tears down the drill-up group only
UpdateProxyOverlays_TearDownDrillUpOnly(p, chart) ==
    LET p2 == RemoveElement(p, p.drillUpProxyGroup)
        p3 == IF IsDefined(chart.resetZoomButton)
                  THEN RecreateProxyButtonAndGroup(
                           p2, "resetZoomButton", "resetZoomProxyButton",
                           "resetZoomProxyGroup",
                           LangFormat("accessibility.zoom.resetZoomButton", ""))
              ELSE p2
    IN  IF IsDefined(chart.drillUpButton)
            THEN RecreateProxyButtonAndGroup(
                     p3, "drillUpButton", "drillUpProxyButton",
                     "drillUpProxyGroup",
                     LangFormat("accessibility.drillUpButton",
                                chart.drilldownBackText))
        ELSE p3

UpdateProxyOverlays(p, chart) ==
    LET p1 == RemoveElement(p, p.drillUpProxyGroup)
        p2 == RemoveElement(p1, p1.resetZoomProxyGroup)
        p3 == IF IsDefined(chart.resetZoomButton)
                  THEN RecreateProxyButtonAndGroup(
                           p2, "resetZoomButton", "resetZoomProxyButton",
                           "resetZoomProxyGroup",
                           LangFormat("accessibility.zoom.resetZoomButton", ""))
              ELSE p2
    IN  IF IsDefined(chart.drillUpButton)
            THEN RecreateProxyButtonAndGroup(
                     p3, "drillUpButton", "drillUpProxyButton",
                     "drillUpProxyGroup",
                     LangFormat("accessibility.drillUpButton",
                                chart.drilldownBackText))
        ELSE p3

(***************************************************************************)
(* Keyboard navigation.  n is the navigation state; a handler returns an   *)
(* outcome: the new navigation state, the response code, whether it threw, *)
(* and the calls it made on the chart.                                     *)
(***************************************************************************)
NavState ==
    [ix |-> focusedMapNavButtonIx, buttons |-> mapNavButtons,
     xAxis |-> xAxis, yAxis |-> yAxis, focus |-> focusElement]

Outcome(n, response, calls) ==
    [n |-> n, response |-> response, thrown |-> FALSE, calls |-> calls]
\* a TypeError: reading a property of undefined
Threw(n, calls) ==
    [n |-> n, response |-> "none", thrown |-> TRUE, calls |-> calls]

ArrowKeys == {"up", "down", "left", "right"}
KeyCodes == ArrowKeys \cup {"tab", "space", "enter"}

MapNavButtonElement(i) == [kind |-> "mapNavButton", ref |-> i]
ProxyElement(id) == [kind |-> "proxy", ref |-> id]

\* chart.mapNavButtons[i], for an optional index i
MapNavButton(n, i) ==
    IF IsDefined(n.buttons) THEN ArrayGet(Val(n.buttons), i) ELSE Undefined

\* button.setState(state) on chart.mapNavButtons[i]
SetState(n, i, state) ==
    [n EXCEPT !.buttons = <<ArraySet(Val(n.buttons), i, [state |-> state])>>]

\* chart.setFocusToElement(box, element)
SetFocusToElement(n, element) == [n EXCEPT !.focus = <<element>>]

\* an arrow handler that pans backwards on left only
OnMapKbdArrow_UpForward(n, keyboardNavigationHandler, keyCode) ==
    LET panAxis == IF keyCode = "up" \/ keyCode = "down" THEN "yAxis" ELSE "xAxis"
        stepDirection == IF keyCode = "left" THEN -1 ELSE 1
        n1 == [n EXCEPT ![panAxis] = PanStep(@, stepDirection, Undefined)]
    IN  IF ~IsDefined(keyboardNavigationHandler) THEN Threw(n1, <<>>)
        ELSE Outcome(n1, "success", <<>>)

OnMapKbdArrow(n, keyboardNavigationHandler, keyCode) ==
    LET panAxis == IF keyCode = "up" \/ keyCode = "down" THEN "yAxis" ELSE "xAxis"
        stepDirection == IF keyCode = "left" \/ keyCode = "up" THEN -1 ELSE 1
        n1 == [n EXCEPT ![panAxis] = PanStep(@, stepDirection, Undefined)]
    IN  IF ~IsDefined(keyboardNavigationHandler) THEN Threw(n1, <<>>)
        ELSE Outcome(n1, "success", <<>>)

\* a tab handler that does not deselect the old button on an internal move
OnMapKbdTab_NoDeselect(n, keyboardNavigationHandler, event) ==
    LET isBackwards == event.shiftKey
        isMoveOutOfRange == \/ isBackwards /\ ~Truthy(n.ix)
                            \/ ~isBackwards /\ Truthy(n.ix)
        old == MapNavButton(n, n.ix)
        n1 == SetState(n, Val(n.ix), 0)
        ix2 == Val(n.ix) + (IF isBackwards THEN -1 ELSE 1)
        n2 == [n EXCEPT !.ix = <<ix2>>]
        button == MapNavButton(n2, n2.ix)
    IN  IF ~IsDefined(keyboardNavigationHandler) THEN Threw(n, <<>>)
        ELSE IF ~IsDefined(old) THEN Threw(n, <<>>)
        ELSE IF isMoveOutOfRange
            THEN Outcome([n1 EXCEPT !.xAxis = MapZoomReset(@),
                                    !.yAxis = MapZoomReset(@)],
                         IF isBackwards THEN "prev" ELSE "next",
                         << <<"mapZoom", 0>> >>)
        ELSE IF ~IsDefined(button) THEN Threw(n2, <<>>)
        ELSE Outcome(SetState(SetFocusToElement(n2, MapNavButtonElement(ix2)),
                              ix2, 2),
                     "success", <<>>)

OnMapKbdTab(n, keyboardNavigationHandler, event) ==
    LET isBackwards == event.shiftKey
        isMoveOutOfRange == \/ isBackwards /\ ~Truthy(n.ix)
                            \/ ~isBackwards /\ Truthy(n.ix)
        old == MapNavButton(n, n.ix)
        n1 == SetState(n, Val(n.ix), 0)
        ix2 == Val(n.ix) + (IF isBackwards THEN -1 ELSE 1)
        n2 == [n1 EXCEPT !.ix = <<ix2>>]
        button == MapNavButton(n2, n2.ix)
    IN  IF ~IsDefined(keyboardNavigationHandler) THEN Threw(n, <<>>)
        ELSE IF ~IsDefined(old) THEN Threw(n, <<>>)
        ELSE IF isMoveOutOfRange
            THEN Outcome([n1 EXCEPT !.xAxis = MapZoomReset(@),
                                    !.yAxis = MapZoomReset(@)],
                         IF isBackwards THEN "prev" ELSE "next",
                         << <<"mapZoom", 0>> >>)
        ELSE IF ~IsDefined(button) THEN Threw(n2, <<>>)
        ELSE Outcome(SetState(SetFocusToElement(n2, MapNavButtonElement(ix2)),
                              ix2, 2),
                     "success", <<>>)

OnMapKbdClick(n, keyboardNavigationHandler) ==
    LET button == MapNavButton(n, n.ix)
        calls == << <<"fakeClickEvent", Val(n.ix)>> >>
    IN  IF ~IsDefined(button) THEN Threw(n, <<>>)
        ELSE IF ~IsDefined(keyboardNavigationHandler) THEN Threw(n, calls)
        ELSE Outcome(n, "success", calls)

OnMapNavInit(n, direction) ==
    LET zoomIn == MapNavButton(n, <<0>>)
        zoomOut == MapNavButton(n, <<1>>)
        initialButton == IF direction > 0 THEN zoomIn ELSE zoomOut
        i == IF direction > 0 THEN 0 ELSE 1
        n1 == SetState(SetFocusToElement(n, MapNavButtonElement(i)), i, 2)
    IN  IF ~IsDefined(n.buttons) THEN Threw(n, <<>>)
        ELSE IF ~IsDefined(initialButton) THEN Threw(n, <<>>)
        ELSE Outcome([n1 EXCEPT !.ix = <<IF direction > 0 THEN 0 ELSE 1>>],
                     "none", <<>>)

\* the keyCodeMap of getMapZoomNavigation, run on a key event by the handler
\* "mapZoom": the first entry that lists the key code
MapZoomKeyCodeMap(n, keyCode, event) ==
    IF keyCode \in ArrowKeys THEN OnMapKbdArrow(n, <<"mapZoom">>, keyCode)
    ELSE IF keyCode = "tab" THEN OnMapKbdTab(n, <<"mapZoom">>, event)
    ELSE OnMapKbdClick(n, Undefined)

\* a keyCodeMap whose tab and arrow entry takes shift for backwards on any key
SimpleButtonKeyCodeMap_ShiftAnyKey(n, onClick, keyCode, event) ==
    IF keyCode \in {"tab"} \cup ArrowKeys
        THEN LET isBackwards == \/ event.shiftKey
                                \/ keyCode = "left"
                                \/ keyCode = "up"
             IN  Outcome(n, IF isBackwards THEN "prev" ELSE "next", <<>>)
    ELSE Outcome(n, "success", << <<onClick, 0>> >>)

\* the keyCodeMap of simpleButtonNavigation(buttonProp, proxyProp, onClick)
SimpleButtonKeyCodeMap(n, onClick, keyCode, event) ==
    IF keyCode \in {"tab"} \cup ArrowKeys
        THEN LET isBackwards == \/ keyCode = "tab" /\ event.shiftKey
                                \/ keyCode = "left"
                                \/ keyCode = "up"
             IN  Outcome(n, IF isBackwards THEN "prev" ELSE "next", <<>>)
    ELSE Outcome(n, "success", << <<onClick, 0>> >>)

\* validate of simpleButtonNavigation: the value of chart[buttonProp] &&
\* chart[buttonProp].box && component[proxyProp]
SimpleButtonValidate(chart, p, buttonProp, proxyProp) ==
    IF ~IsDefined(chart[buttonProp]) THEN Undefined
    ELSE IF ~Val(chart[buttonProp]).box THEN Undefined
    ELSE p[proxyProp]

\* the handlers of getKeyboardNavigation, in order
GetKeyboardNavigation ==
    << [name |-> "resetZoom", buttonProp |-> "resetZoomButton",
        proxyProp |-> "resetZoomProxyButton", onClick |-> "zoomOut"],
       [name |-> "drillUp", buttonProp |-> "drillUpButton",
        proxyProp |-> "drillUpProxyButton", onClick |-> "drillUp"],
       [name |-> "mapZoom", buttonProp |-> "", proxyProp |-> "", onClick |-> ""] >>

ResetZoomHandler == GetKeyboardNavigation[1]
DrillUpHandler == GetKeyboardNavigation[2]
MapZoomHandler == GetKeyboardNavigation[3]
SimpleHandlers == {ResetZoomHandler, DrillUpHandler}

\* whether validate() of the handler is truthy
Validate(h, chart, p) ==
    IF h.name = "mapZoom" THEN Truthy(ChartHasMapZoom(chart))
    ELSE IsDefined(SimpleButtonValidate(chart, p, h.buttonProp, h.proxyProp))

(***************************************************************************)
(* Actions.  lastOp records the operation of the last step: what was       *)
(* called with which arguments, what it answered, whether it threw, the    *)
(* calls it made on the chart, and for panStep the extremes it read.       *)
(***************************************************************************)
NoOp ==
    [name |-> "none", handler |-> "none", key |-> "none", shiftKey |-> FALSE,
     direction |-> 0, granularity |-> Undefined, response |-> "none",
     thrown |-> FALSE, calls |-> <<>>, again |-> FALSE,
     extremes |-> Undefined]

\* a direct call of chart.xAxis[0].panStep(direction, granularity)
AxisPanStep(direction, granularity) ==
    /\ Abs(xAxis.min) <= MaxMagnitude
    /\ Abs(xAxis.max) <= MaxMagnitude
    /\ xAxis' = PanStep(xAxis, direction, granularity)
    /\ lastOp' = [NoOp EXCEPT !.name = "panStep", !.direction = direction,
                              !.granularity = granularity,
                              !.extremes = <<xAxis>>]
    /\ UNCHANGED <<yAxis, chartVars, proxyVars, focusElement,
                   focusedMapNavButtonIx, currentHandler>>

\* the sequencer leaves a handler that answers prev or next
AfterResponse(handler, response) ==
    IF response \in {"prev", "next"} THEN "none" ELSE handler

ApplyNav(out) ==
    /\ focusedMapNavButtonIx' = out.n.ix
    /\ mapNavButtons' = out.n.buttons
    /\ xAxis' = out.n.xAxis
    /\ yAxis' = out.n.yAxis
    /\ focusElement' = out.n.focus

\* the sequencer arms the map-zoom handler, which it found valid:
\* init(direction)
MapZoomInit(direction) ==
    /\ Validate(MapZoomHandler, Chart, ProxyState)
    /\ LET out == OnMapNavInit(NavState, direction)
       IN  /\ ApplyNav(out)
           /\ lastOp' = [NoOp EXCEPT !.name = "init", !.handler = "mapZoom",
                                     !.direction = direction,
                                     !.thrown = out.thrown]
    /\ currentHandler' = "mapZoom"
    /\ UNCHANGED <<mapZoom, resetZoomButton, drillUpButton, drilldownBackText,
                   proxyVars>>

\* a key event while the map-zoom handler is armed
MapZoomKey(keyCode, shiftKey) ==
    /\ currentHandler = "mapZoom"
    /\ LET out == MapZoomKeyCodeMap(NavState, keyCode, [shiftKey |-> shiftKey])
       IN  /\ ApplyNav(out)
           /\ currentHandler' = AfterResponse(currentHandler, out.response)
           /\ lastOp' = [NoOp EXCEPT !.name = "key", !.handler = "mapZoom",
                                     !.key = keyCode, !.shiftKey = shiftKey,
                                     !.response = out.response,
                                     !.thrown = out.thrown,
                                     !.calls = out.calls]
    /\ UNCHANGED <<mapZoom, resetZoomButton, drillUpButton, drilldownBackText,
                   proxyVars>>

\* the sequencer arms a simple button handler, which it found valid: init()
\* focuses the proxy button
SimpleButtonInit(h) ==
    /\ Validate(h, Chart, ProxyState)
    /\ focusElement' = <<ProxyElement(Val(ProxyState[h.proxyProp]))>>
    /\ currentHandler' = h.name
    /\ lastOp' = [NoOp EXCEPT !.name = "init", !.handler = h.name]
    /\ UNCHANGED <<xAxis, yAxis, chartVars, focusedMapNavButtonIx, proxyVars>>

\* a key event while a simple button handler is armed
SimpleButtonKey(h, keyCode, shiftKey) ==
    /\ currentHandler = h.name
    /\ LET out == SimpleButtonKeyCodeMap(NavState, h.onClick, keyCode,
                                         [shiftKey |-> shiftKey])
       IN  /\ currentHandler' = AfterResponse(currentHandler, out.response)
           /\ lastOp' = [NoOp EXCEPT !.name = "key", !.handler = h.name,
                                     !.key = keyCode, !.shiftKey = shiftKey,
                                     !.response = out.response,
                                     !.thrown = out.thrown,
                                     !.calls = out.calls]
    /\ UNCHANGED <<xAxis, yAxis, chartVars, focusElement,
                   focusedMapNavButtonIx, proxyVars>>

\* a render, afterShowResetZoom, afterDrilldown or drillupall event of the
\* chart: the component updates the proxy overlays
RefreshEvents == {"render", "afterShowResetZoom", "afterDrilldown", "drillupall"}

OnChartEvent(eventType) ==
    /\ eventType \in RefreshEvents
    /\ LET p == Collect(UpdateProxyOverlays(ProxyState, Chart))
       IN  /\ resetZoomProxyGroup' = p.resetZoomProxyGroup
           /\ resetZoomProxyButton' = p.resetZoomProxyButton
           /\ drillUpProxyGroup' = p.drillUpProxyGroup
           /\ drillUpProxyButton' = p.drillUpProxyButton
           /\ elements' = p.elements
           /\ attached' = p.attached
    /\ lastOp' = [NoOp EXCEPT !.name = "updateProxyOverlays",
                              !.again = (lastOp.name = "updateProxyOverlays")]
    /\ UNCHANGED <<xAxis, yAxis, chartVars, focusElement,
                   focusedMapNavButtonIx, currentHandler>>

\* the chart shows or destroys its reset-zoom button
ChartButtons == {Undefined, <<[box |-> TRUE]>>, <<[box |-> FALSE]>>}
BackTexts == {"Back", "Back to Series 1"}

ChartSetResetZoomButton(button) ==
    /\ button # resetZoomButton
    /\ resetZoomButton' = button
    /\ lastOp' = [NoOp EXCEPT !.name = "chart"]
    /\ UNCHANGED <<xAxis, yAxis, mapZoom, mapNavButtons, drillUpButton,
                   drilldownBackText, focusElement, focusedMapNavButtonIx,
                   proxyVars, currentHandler>>

\* the chart shows or destroys its drill-up button, with its back text
ChartSetDrillUpButton(button, text) ==
    /\ <<button, text>> # <<drillUpButton, drilldownBackText>>
    /\ drillUpButton' = button
    /\ drilldownBackText' = text
    /\ lastOp' = [NoOp EXCEPT !.name = "chart"]
    /\ UNCHANGED <<xAxis, yAxis, mapZoom, mapNavButtons, resetZoomButton,
                   focusElement, focusedMapNavButtonIx, proxyVars,
                   currentHandler>>

\* the chart changes its reset-zoom or drill-up button and fires the event
\* that goes with the change, in one synchronous step: it shows the
\* reset-zoom button (afterShowResetZoom) or destroys it and redraws (render),
\* drills down and shows the drill-up button (afterDrilldown), or drills up
\* (drillupall).  The component updates the proxy overlays from the chart as
\* changed.
OnChartChangeEvent(eventType, reset, drill, text) ==
    /\ \/ /\ eventType = "afterShowResetZoom"
          /\ IsDefined(reset)
          /\ reset # resetZoomButton
          /\ <<drill, text>> = <<drillUpButton, drilldownBackText>>
       \/ /\ eventType = "render"
          /\ ~IsDefined(reset)
          /\ IsDefined(resetZoomButton)
          /\ <<drill, text>> = <<drillUpButton, drilldownBackText>>
       \/ /\ eventType = "afterDrilldown"
          /\ IsDefined(drill)
          /\ <<drill, text>> # <<drillUpButton, drilldownBackText>>
          /\ reset = resetZoomButton
       \/ /\ eventType = "drillupall"
          /\ IsDefined(drillUpButton)
          /\ <<drill, text>> # <<drillUpButton, drilldownBackText>>
          /\ reset = resetZoomButton
    /\ resetZoomButton' = reset
    /\ drillUpButton' = drill
    /\ drilldownBackText' = text
    /\ LET chart == [Chart EXCEPT !.resetZoomButton = reset,
                                  !.drillUpButton = drill,
                                  !.drilldownBackText = text]
           p == Collect(UpdateProxyOverlays(ProxyState, chart))
       IN  /\ resetZoomProxyGroup' = p.resetZoomProxyGroup
           /\ resetZoomProxyButton' = p.resetZoomProxyButton
           /\ drillUpProxyGroup' = p.drillUpProxyGroup
           /\ drillUpProxyButton' = p.drillUpProxyButton
           /\ elements' = p.elements
           /\ attached' = p.attached
    /\ lastOp' = [NoOp EXCEPT !.name = "updateProxyOverlays"]
    /\ UNCHANGED <<xAxis, yAxis, mapZoom, mapNavButtons, focusElement,
                   focusedMapNavButtonIx, currentHandler>>

(***************************************************************************)
(* Initial states and specifications.                                      *)
(***************************************************************************)
Directions == {-1, 1}
Granularities == {Undefined} \cup {<<g>> : g \in 1..MaxGran}
InitDirections == {-1, 0, 1}

\* the arrays chart.mapNavButtons can be: n buttons in the normal state
NavButtonArrays == {[i \in 1..n |-> [state |-> 0]] : n \in 0..MaxButtons}

\* the extremes of a chart's axis: a window in the data range 0..maxv
ChartExtremes(maxv) ==
    {e \in Extremes(maxv) : e.dataMin = 0 /\ e.dataMax = maxv}

NoAxis == [min |-> 0, max |-> 0, dataMin |-> 0, dataMax |-> 0]

\* a component just constructed: no proxies, no focus, no handler armed
InitComponent ==
    /\ focusElement = Undefined
    /\ focusedMapNavButtonIx = Undefined
    /\ resetZoomProxyGroup = Undefined
    /\ resetZoomProxyButton = Undefined
    /\ drillUpProxyGroup = Undefined
    /\ drillUpProxyButton = Undefined
    /\ elements = <<>>
    /\ attached = {}
    /\ currentHandler = "none"
    /\ lastOp = NoOp

\* a chart without reset-zoom and drill-up button
InitNoButtons ==
    /\ resetZoomButton = Undefined
    /\ drillUpButton = Undefined
    /\ drilldownBackText = "Back"

\* a chart without map navigation
InitNoMap ==
    /\ mapZoom = FALSE
    /\ mapNavButtons = Undefined

\* panStep alone, on one axis
InitPan ==
    /\ xAxis \in Extremes(MaxValue)
    /\ yAxis = NoAxis
    /\ InitNoMap
    /\ InitNoButtons
    /\ InitComponent

NextPan ==
    \E direction \in Directions, granularity \in Granularities :
        AxisPanStep(direction, granularity)

SpecPan == InitPan /\ [][NextPan]_vars

\* the extremes of an inverted axis: max < min, anywhere around the data
InvertedExtremes(maxv) ==
    {[min |-> mn, max |-> mx, dataMin |-> dmn, dataMax |-> dmx] :
        <<mn, mx, dmn, dmx>> \in
            {t \in Numbers(maxv) \X Numbers(maxv) \X Numbers(maxv) \X Numbers(maxv) :
                t[2] < t[1] /\ t[3] <= t[4]}}

\* panStep alone, on one inverted axis
InitPanInverted ==
    /\ xAxis \in InvertedExtremes(MaxInverted)
    /\ yAxis = NoAxis
    /\ InitNoMap
    /\ InitNoButtons
    /\ InitComponent

SpecPanInverted == InitPanInverted /\ [][NextPan]_vars

\* the map-zoom handler, on a chart with or without map navigation
InitMapZoom ==
    /\ xAxis \in ChartExtremes(MaxChartValue)
    /\ yAxis \in ChartExtremes(MaxChartValue)
    /\ mapZoom \in BOOLEAN
    /\ mapNavButtons \in {Undefined} \cup {<<a>> : a \in NavButtonArrays}
    /\ InitNoButtons
    /\ InitComponent

NextMapZoom ==
    \/ \E direction \in InitDirections : MapZoomInit(direction)
    \/ \E keyCode \in KeyCodes, shiftKey \in BOOLEAN : MapZoomKey(keyCode, shiftKey)

SpecMapZoom == InitMapZoom /\ [][NextMapZoom]_vars

\* the proxy overlays and the handlers of the reset-zoom and drill-up
\* buttons, on a chart whose buttons come and go
InitProxy ==
    /\ xAxis = NoAxis
    /\ yAxis = NoAxis
    /\ InitNoMap
    /\ InitNoButtons
    /\ InitComponent

NextProxy ==
    \/ \E h \in SimpleHandlers : SimpleButtonInit(h)
    \/ \E h \in SimpleHandlers, keyCode \in KeyCodes, shiftKey \in BOOLEAN :
           SimpleButtonKey(h, keyCode, shiftKey)
    \/ \E eventType \in RefreshEvents : OnChartEvent(eventType)
    \/ \E button \in ChartButtons : ChartSetResetZoomButton(button)
    \/ \E button \in ChartButtons, text \in BackTexts :
           ChartSetDrillUpButton(button, text)

SpecProxy == InitProxy /\ [][NextProxy]_vars

\* the same, on a chart that fires an event with every change of its buttons
NextProxyEvents ==
    \/ \E h \in SimpleHandlers : SimpleButtonInit(h)
    \/ \E h \in SimpleHandlers, keyCode \in KeyCodes, shiftKey \in BOOLEAN :
           SimpleButtonKey(h, keyCode, shiftKey)
    \/ \E eventType \in RefreshEvents : OnChartEvent(eventType)
    \/ \E eventType \in RefreshEvents, reset \in ChartButtons,
              drill \in ChartButtons, text \in BackTexts :
           OnChartChangeEvent(eventType, reset, drill, text)

SpecProxyEvents == InitProxy /\ [][NextProxyEvents]_vars

\* the whole component
Init ==
    /\ xAxis \in ChartExtremes(MaxChartValue)
    /\ yAxis \in ChartExtremes(MaxChartValue)
    /\ mapZoom \in BOOLEAN
    /\ mapNavButtons \in {Undefined} \cup {<<a>> : a \in NavButtonArrays}
    /\ InitNoButtons
    /\ InitComponent

Next == NextPan \/ NextMapZoom \/ NextProxy

Spec == Init /\ [][Next]_vars

(***************************************************************************)
(* Claims about panStep, checked under SpecPan.                            *)
(***************************************************************************)
\* the extremes lie within the data bounds, in order
WithinData(axis) ==
    /\ axis.dataMin <= axis.min
    /\ axis.min <= axis.max
    /\ axis.max <= axis.dataMax

\* a step that is a call of panStep on an x axis within its data bounds
PanStepWithinData ==
    /\ lastOp'.name = "panStep"
    /\ WithinData(xAxis)

\* C1: pan clamp invariant.  Whenever panStep is called on an axis whose
\* extremes satisfy dataMin <= min <= max <= dataMax, with either direction
\* and any positive granularity, the extremes it applies satisfy
\* dataMin <= newMin <= newMax <= dataMax.
C1_PanClampInvariant ==
    [][PanStepWithinData => WithinData(xAxis')]_vars

\* C2: panStep preserves the window size.  Whenever panStep is called on an
\* axis within its data bounds, the applied newMax - newMin equals the
\* pre-pan max - min, clamped or not.
C2_PanPreservesSize ==
    [][PanStepWithinData =>
           xAxis'.max - xAxis'.min = xAxis.max - xAxis.min]_vars

\* C12: panStep on a degenerate axis (max = min, within the data bounds)
\* computes a zero step and is a no-op: for either direction and any
\* granularity the extremes it applies equal the extremes before the call.
C12_DegenerateNoOp ==
    [][(PanStepWithinData /\ xAxis.max = xAxis.min) => xAxis' = xAxis]_vars

\* panStep was called backwards with granularity 2 on a degenerate window
\* strictly inside the data range
C12_Witness ==
    /\ lastOp.name = "panStep"
    /\ lastOp.direction = -1
    /\ lastOp.granularity = <<2>>
    /\ LET e == Val(lastOp.extremes)
       IN  /\ e.min = e.max
           /\ e.dataMin < e.min
           /\ e.max < e.dataMax

\* the window touches the data boundary in the direction
AtBoundary(axis, direction) ==
    IF direction > 0 THEN axis.max = axis.dataMax ELSE axis.min = axis.dataMin

\* C19: pan saturation.  On an axis with dataMin <= min < max <= dataMax,
\* repeating panStep in one direction eventually brings the window to the
\* data boundary in that direction, and from then on every further panStep
\* in that direction leaves the extremes unchanged.  Stated on single
\* steps: a panStep at the boundary changes nothing, and a panStep short of
\* the boundary changes the extremes (panStep is deterministic, so a step
\* that changes nothing short of the boundary repeats forever).
C19_PanSaturation ==
    [][(PanStepWithinData /\ xAxis.min < xAxis.max)
       => IF AtBoundary(xAxis, lastOp'.direction) THEN xAxis' = xAxis
          ELSE xAxis' # xAxis]_vars

\* whether panStep takes one of its two clamping branches
PanStepClamps(extremes, direction, granularity) ==
    LET step == NumMulSign(NumDiv(NumSub(extremes.max, extremes.min),
                                  Gran(granularity)), direction)
    IN  \/ direction < 0 /\ NumAdd(extremes.min, step) < extremes.dataMin
        \/ direction > 0 /\ NumAdd(extremes.max, step) > extremes.dataMax

\* a panStep(-d, g) that follows an unclamped panStep(d, g) on an axis that
\* was within its data bounds
PanStepBack ==
    /\ lastOp.name = "panStep"
    /\ lastOp'.name = "panStep"
    /\ lastOp'.direction = -lastOp.direction
    /\ lastOp'.granularity = lastOp.granularity
    /\ WithinData(Val(lastOp.extremes))
    /\ ~PanStepClamps(Val(lastOp.extremes), lastOp.direction, lastOp.granularity)

\* C20: pan round trip.  On an axis with dataMin <= min <= max <= dataMax,
\* if panStep(d, g) is not clamped, then panStep(-d, g) right after it
\* restores exactly the original extremes.
C20_PanRoundTrip ==
    [][PanStepBack => xAxis' = Val(lastOp.extremes)]_vars

\* a step that is a call of panStep on an inverted x axis
PanStepInverted ==
    /\ lastOp'.name = "panStep"
    /\ xAxis.max < xAxis.min

\* C11: panStep on an inverted axis (max < min) sets no invalid extremes:
\* the extremes it applies never have newMax < newMin, and when they would
\* the call is a no-op that leaves the extremes of the axis unchanged.
C11_InvertedAxisNoOp ==
    [][PanStepInverted => (xAxis'.min <= xAxis'.max \/ xAxis' = xAxis)]_vars

(***************************************************************************)
(* Claims about the map-zoom handler, checked under SpecMapZoom.           *)
(***************************************************************************)
\* a step that dispatches one of the keys to the map-zoom handler
MapZoomKeyStep(keys) ==
    /\ lastOp'.name = "key"
    /\ lastOp'.handler = "mapZoom"
    /\ lastOp'.key \in keys

\* a step that is init(direction) of the map-zoom handler
MapZoomInitStep ==
    /\ lastOp'.name = "init"
    /\ lastOp'.handler = "mapZoom"

\* the state of chart.mapNavButtons[i], -1 when there is no such button
ButtonStateAt(buttons, i) ==
    IF IsDefined(buttons) /\ IsDefined(ArrayGet(Val(buttons), <<i>>))
        THEN Val(ArrayGet(Val(buttons), <<i>>)).state
    ELSE -1

\* the indices of the buttons in the selected state (2)
SelectedButtons(buttons) ==
    IF IsDefined(buttons)
        THEN {i \in 0..(Len(Val(buttons)) - 1) : ButtonStateAt(buttons, i) = 2}
    ELSE {}

\* C3: map-zoom click action.  When space or enter is dispatched while
\* FocusedButtonIndex is the index i of a map-navigation button, the action
\* simulates exactly one click, on the element of button i, returns success
\* without failing, and leaves FocusedButtonIndex unchanged.
C3_MapZoomClick ==
    [][(/\ MapZoomKeyStep({"space", "enter"})
        /\ IsDefined(MapNavButton(NavState, focusedMapNavButtonIx)))
       => /\ lastOp'.calls = << <<"fakeClickEvent", Val(focusedMapNavButtonIx)>> >>
          /\ lastOp'.response = "success"
          /\ ~lastOp'.thrown
          /\ focusedMapNavButtonIx' = focusedMapNavButtonIx]_vars

\* C4: map-zoom tab exit.  Shift+tab at FocusedButtonIndex 0 resets the map
\* zoom and returns prev (moveFocusPrev); plain tab at FocusedButtonIndex 1
\* resets the map zoom and returns next (moveFocusNext); in both cases no
\* map-navigation button is selected after the action.
C4_TabExit ==
    [][(/\ MapZoomKeyStep({"tab"})
        /\ \/ focusedMapNavButtonIx = <<0>> /\ lastOp'.shiftKey
           \/ focusedMapNavButtonIx = <<1>> /\ ~lastOp'.shiftKey)
       => /\ lastOp'.calls = << <<"mapZoom", 0>> >>
          /\ lastOp'.response = (IF lastOp'.shiftKey THEN "prev" ELSE "next")
          /\ SelectedButtons(mapNavButtons') = {}]_vars

\* C5: map-zoom tab internal move.  Plain tab at FocusedButtonIndex 0 makes
\* the index 1, deselects button 0, focuses and selects button 1 and returns
\* success; shift+tab at index 1 makes the index 0 and selects button 0
\* likewise.  An internal move never resets the map zoom.
C5_TabInternalMove ==
    [][/\ (MapZoomKeyStep({"tab"}) /\ focusedMapNavButtonIx = <<0>>
               /\ ~lastOp'.shiftKey)
          => /\ focusedMapNavButtonIx' = <<1>>
             /\ ButtonStateAt(mapNavButtons', 0) = 0
             /\ ButtonStateAt(mapNavButtons', 1) = 2
             /\ focusElement' = <<MapNavButtonElement(1)>>
             /\ lastOp'.response = "success"
             /\ lastOp'.calls = <<>>
       /\ (MapZoomKeyStep({"tab"}) /\ focusedMapNavButtonIx = <<1>>
               /\ lastOp'.shiftKey)
          => /\ focusedMapNavButtonIx' = <<0>>
             /\ ButtonStateAt(mapNavButtons', 1) = 0
             /\ ButtonStateAt(mapNavButtons', 0) = 2
             /\ focusElement' = <<MapNavButtonElement(0)>>
             /\ lastOp'.response = "success"
             /\ lastOp'.calls = <<>>]_vars

\* C6: validate gating for map zoom.  In every chart state validate() of the
\* map-zoom handler is truthy exactly if the chart has a map zoom and a
\* non-empty list of map-navigation buttons: it is falsy when the chart has
\* no map zoom, no button list or zero buttons.
C6_ValidateGating ==
    Validate(MapZoomHandler, Chart, ProxyState)
        <=> (/\ mapZoom
             /\ IsDefined(mapNavButtons)
             /\ Len(Val(mapNavButtons)) > 0)

\* the handler was armed on a chart with a single map-navigation button
C6_Witness ==
    /\ lastOp.name = "init"
    /\ lastOp.handler = "mapZoom"
    /\ Validate(MapZoomHandler, Chart, ProxyState)
    /\ Len(Val(mapNavButtons)) = 1

\* C10: map-zoom init(direction).  For direction > 0 the zoom-in button
\* (index 0) is focused and selected and FocusedButtonIndex becomes 0; for any
\* other direction the zoom-out button (index 1) is focused and selected and
\* FocusedButtonIndex becomes 1, whatever the index was before.
C10_MapNavInit ==
    [][MapZoomInitStep
       => LET i == IF lastOp'.direction > 0 THEN 0 ELSE 1
          IN  /\ focusedMapNavButtonIx' = <<i>>
              /\ ButtonStateAt(mapNavButtons', i) = 2
              /\ focusElement' = <<MapNavButtonElement(i)>>]_vars

\* C13: idempotent re-entry of the map-zoom handler.  init(direction) while
\* the handler already holds focus from an earlier init (tab moves in
\* between, no exit) overrides the prior focus state: afterwards the only
\* map-navigation button marked selected is the one the new direction chooses
\* and FocusedButtonIndex identifies it.  Stated for the directions whose
\* button the chart has.
C13_IdempotentReentry ==
    [][(/\ MapZoomInitStep
        /\ currentHandler = "mapZoom"
        /\ IsDefined(MapNavButton(NavState,
                                  <<IF lastOp'.direction > 0 THEN 0 ELSE 1>>)))
       => LET i == IF lastOp'.direction > 0 THEN 0 ELSE 1
          IN  /\ SelectedButtons(mapNavButtons') = {i}
              /\ focusedMapNavButtonIx' = <<i>>]_vars

\* C14: lookups are safe when the target is absent.  Whenever validate() of
\* the map-zoom handler is truthy (map zoom and at least one button, also
\* exactly one), init(direction) and every following tab, click or arrow
\* action operate on a button or axis that exists and never fail on a
\* missing one: init, tab and arrow never throw, and a click throws at most
\* after it has clicked the button it found.
C14_LookupsSafe ==
    (lastOp.handler = "mapZoom" /\ lastOp.thrown)
    => /\ lastOp.key \in {"space", "enter"}
       /\ lastOp.calls # <<>>

\* the chart has exactly two map-navigation buttons
TwoButtons(buttons) == IsDefined(buttons) /\ Len(Val(buttons)) = 2

\* the index is 0 or 1 and its button is the one and only selected button
FocusIndexInvariant(ix, buttons) ==
    /\ ix \in {<<0>>, <<1>>}
    /\ SelectedButtons(buttons) = {Val(ix)}

C18_ArrowKeys ==
    [][MapZoomKeyStep(ArrowKeys)
       => LET d == IF lastOp'.key \in {"up", "left"} THEN -1 ELSE 1
          IN  /\ lastOp'.response = "success"
              /\ ~lastOp'.thrown
              /\ lastOp'.key \in {"up", "down"}
                 => /\ yAxis' = PanStep(yAxis, d, <<3>>)
                    /\ xAxis' = xAxis
              /\ lastOp'.key \in {"left", "right"}
                 => /\ xAxis' = PanStep(xAxis, d, <<3>>)
                    /\ yAxis' = yAxis
              /\ focusedMapNavButtonIx' = focusedMapNavButtonIx
              /\ mapNavButtons' = mapNavButtons]_vars

\* up was dispatched and the y window lies at the data minimum, short of the
\* data maximum, while the x window does not
C18_Witness ==
    /\ lastOp.name = "key"
    /\ lastOp.key = "up"
    /\ lastOp.response = "success"
    /\ yAxis.min = yAxis.dataMin
    /\ yAxis.max < yAxis.dataMax
    /\ xAxis.min > xAxis.dataMin

(***************************************************************************)
(* Claims about the proxy overlays and the simple button handlers, checked *)
(* under SpecProxy.                                                        *)
(***************************************************************************)
\* the proxy button of the property is in the document (its group is)
LiveProxy(p, buttonProp) ==
    /\ IsDefined(p[buttonProp])
    /\ Val(p[buttonProp]) \in DOMAIN p.elements
    /\ p.elements[Val(p[buttonProp])].parent \in p.attached

\* the groups in the document and their buttons
LiveIds(p) ==
    p.attached \cup {id \in DOMAIN p.elements : p.elements[id].parent \in p.attached}

LabelOf(p, buttonProp) == p.elements[Val(p[buttonProp])].label

\* C7: role absence.  After every updateProxyOverlays a reset-zoom proxy
\* exists iff the chart has a reset-zoom button and a drill-up proxy exists
\* iff the chart has a drill-up button; and whenever the chart has no
\* drill-up (reset-zoom) button, validate() of that handler is falsy.
C7_RoleAbsence ==
    /\ lastOp.name = "updateProxyOverlays"
       => /\ LiveProxy(ProxyState, "resetZoomProxyButton") <=> IsDefined(resetZoomButton)
          /\ LiveProxy(ProxyState, "drillUpProxyButton") <=> IsDefined(drillUpButton)
    /\ ~IsDefined(drillUpButton) => ~Validate(DrillUpHandler, Chart, ProxyState)
    /\ ~IsDefined(resetZoomButton) => ~Validate(ResetZoomHandler, Chart, ProxyState)

\* a refresh after the drill-up button went away: the component still holds
\* the old drill-up proxy, and the reset-zoom proxy is there
C7_Witness ==
    /\ lastOp.name = "updateProxyOverlays"
    /\ ~IsDefined(drillUpButton)
    /\ IsDefined(drillUpProxyButton)
    /\ LiveProxy(ProxyState, "resetZoomProxyButton")

\* C8: refresh idempotence.  A second updateProxyOverlays right after a
\* first, with no chart change in between, leaves the same roles with a
\* proxy and the same labels, while every group and button in the document
\* after it is a new instance and the groups of the first call are out of
\* the document.
C8_RefreshIdempotence ==
    [][(lastOp.name = "updateProxyOverlays" /\ lastOp'.name = "updateProxyOverlays")
       => /\ \A h \in SimpleHandlers :
                 /\ LiveProxy(ProxyState', h.proxyProp) <=> LiveProxy(ProxyState, h.proxyProp)
                 /\ LiveProxy(ProxyState, h.proxyProp)
                    => LabelOf(ProxyState', h.proxyProp) = LabelOf(ProxyState, h.proxyProp)
          /\ LiveIds(ProxyState') \cap DOMAIN elements = {}
          /\ attached' \cap attached = {}]_vars

\* a second refresh in a row, with both proxies in the document
C8_Witness ==
    /\ lastOp.name = "updateProxyOverlays"
    /\ lastOp.again
    /\ LiveProxy(ProxyState, "resetZoomProxyButton")
    /\ LiveProxy(ProxyState, "drillUpProxyButton")

\* the groups in the document that hold a proxy button of the chart's button
GroupsOfRole(p, target) ==
    {g \in p.attached :
        \E id \in DOMAIN p.elements :
            p.elements[id].parent = g /\ p.elements[id].target = target}

\* the proxy buttons of a group
ButtonsOfGroup(p, g) == {id \in DOMAIN p.elements : p.elements[id].parent = g}

\* C17: no proxy leak.  After any sequence of refreshes and chart changes
\* there is at most one proxy group in the document per role (reset-zoom,
\* drill-up), each group in the document holds exactly one proxy button, and
\* every group an earlier refresh created is out of the document when a
\* refresh has created its replacement.
C17_NoProxyLeak ==
    [][/\ \A h \in SimpleHandlers :
              Cardinality(GroupsOfRole(ProxyState', h.buttonProp)) <= 1
       /\ \A g \in attached' : Cardinality(ButtonsOfGroup(ProxyState', g)) = 1
       /\ lastOp'.name = "updateProxyOverlays"
          => attached' \cap DOMAIN elements = {}]_vars

\* a refresh after the reset-zoom button went away: its old group is out of
\* the document, the drill-up proxy is in it
C17_Witness ==
    /\ lastOp.name = "updateProxyOverlays"
    /\ IsDefined(resetZoomProxyGroup)
    /\ Val(resetZoomProxyGroup) \notin attached
    /\ LiveProxy(ProxyState, "drillUpProxyButton")
    /\ Cardinality(attached) = 1

\* C9: simple button handlers.  Tab and arrow keys return a move-focus
\* response and call nothing on the chart: shift+tab, left and up return prev,
\* plain tab, right and down return next; space and enter call zoomOut
\* (reset-zoom handler) or drillUp (drill-up handler) exactly once and return
\* success.
C9_SimpleButtonKeys ==
    (lastOp.name = "key" /\ lastOp.handler \in {"resetZoom", "drillUp"})
    => /\ lastOp.key \in {"tab"} \cup ArrowKeys
          => /\ lastOp.calls = <<>>
             /\ lastOp.response =
                    (IF \/ lastOp.key = "tab" /\ lastOp.shiftKey
                        \/ lastOp.key \in {"left", "up"}
                         THEN "prev" ELSE "next")
       /\ lastOp.key \in {"space", "enter"}
          => /\ lastOp.response = "success"
             /\ lastOp.calls =
                    << <<IF lastOp.handler = "resetZoom" THEN "zoomOut"
                         ELSE "drillUp", 0>> >>

\* enter on the drill-up handler called drillUp
C9_Witness ==
    /\ lastOp.name = "key"
    /\ lastOp.handler = "drillUp"
    /\ lastOp.key = "enter"
    /\ lastOp.calls = << <<"drillUp", 0>> >>

(***************************************************************************)
(* Claims about the interleaving of chart events and key events, checked   *)
(* under SpecProxyEvents.                                                  *)
(***************************************************************************)
\* C15: no stale proxy is ever observed.  Under any interleaving of chart
\* events and key events each refresh is one step, so it is complete before
\* the next key event; everything in the document after a refresh was created
\* by that refresh and nothing else changes the proxies; and whenever
\* validate() of the reset-zoom or drill-up handler is truthy, or its init()
\* focuses a proxy, the proxy button it refers to is in the document, so it
\* is the one the most recent refresh created and has not been torn down.
C15_NoStaleProxy ==
    [][/\ lastOp'.name = "updateProxyOverlays"
          => LiveIds(ProxyState') \cap DOMAIN elements = {}
       /\ lastOp'.name # "updateProxyOverlays" => ProxyState' = ProxyState
       /\ \A h \in SimpleHandlers :
              /\ Validate(h, Chart, ProxyState)'
                 => LiveProxy(ProxyState', h.proxyProp)
              /\ (lastOp'.name = "init" /\ lastOp'.handler = h.name)
                 => /\ LiveProxy(ProxyState', h.proxyProp)
                    /\ focusElement' =
                           <<ProxyElement(Val(ProxyState'[h.proxyProp]))>>]_vars

\* init() of the drill-up handler focused its proxy while the component
\* still holds the reset-zoom proxy of a button that went away
C15_Witness ==
    /\ lastOp.name = "init"
    /\ lastOp.handler = "drillUp"
    /\ LiveProxy(ProxyState, "drillUpProxyButton")
    /\ IsDefined(resetZoomProxyButton)
    /\ ~LiveProxy(ProxyState, "resetZoomProxyButton")

====
